---- MODULE Spec2Model ----
(***************************************************************************)
(* Model of epaper-display.py: the OpenCanary e-paper status display.      *)
(*                                                                         *)
(*   parse_config           -> ParseExists, ParseOpen (+ pure helpers)     *)
(*   check_honeypot_status  -> CheckStatus (+ StatusOf)                    *)
(*   display_on_epaper      -> RenderInit .. RenderSleep, RenderRaise      *)
(*   main                   -> Compare, SetLastStatus, SetLastServices,    *)
(*                             Sleep, Interrupt, HandlerKI, HandlerExc     *)
(*                                                                         *)
(* Text is a sequence of tokens (strings): single characters where the     *)
(* code inspects characters (config keys, service names, ports), whole     *)
(* literals for the fixed message parts.                                   *)
(***************************************************************************)
EXTENDS Integers, Sequences, FiniteSets, TLC

VARIABLES
    pc,               \* position of the single thread
    fs,               \* the file at CONFIG_PATH (environment)
    seen,             \* what parse_config's accesses to the path found
    config,           \* parse_config: the object json.load returned
    result,           \* check_honeypot_status: outcome of subprocess.run
    honeypot_status,  \* main: polled status
    services,         \* main: polled services
    last_status,      \* main: stored status
    last_services,    \* main: stored services
    epd_width,        \* epd.width of the panel driver (environment)
    descent,          \* depth of a descending glyph below the baseline
    layout,           \* display_on_epaper: heights, start_y
    canvas,           \* display_on_epaper: the text drawn on the image
    display,          \* what the physical panel shows
    renderCall,       \* arguments of the most recent render call
    prevCall,         \* arguments of the render call before that one
    completed,        \* arguments of the most recent render that returned
    rendersThisTick,  \* render calls made in the current tick
    firstTick,        \* no tick has reached the sleep yet
    moduleExits       \* calls of epdconfig.module_exit

vars == <<pc, fs, seen, config, result, honeypot_status, services,
          last_status, last_services, epd_width, descent, layout, canvas,
          display, renderCall, prevCall, completed, rendersThisTick,
          firstTick, moduleExits>>

(***************************************************************************)
(* Bounds of the model.                                                    *)
(***************************************************************************)
MaxKeys == 3        \* keys of a configuration object
MaxServices == 9    \* service lines handed to the renderer
MaxOutput == 3      \* tokens of systemctl's standard output
MaxDescent == 2     \* depth of a descending glyph, in pixels

(***************************************************************************)
(* Python values.                                                          *)
(***************************************************************************)
None == [none |-> TRUE]
Some(v) == [val |-> v]

\* a JSON value with its Python type: b, n or s holds it, by type
PyBool(b) == [t |-> "bool", b |-> b, n |-> 0, s |-> <<>>]
PyInt(n) == [t |-> "int", b |-> FALSE, n |-> n, s |-> <<>>]
PyStr(s) == [t |-> "str", b |-> FALSE, n |-> 0, s |-> s]

Min(a, b) == IF a < b THEN a ELSE b
Max(a, b) == IF a > b THEN a ELSE b

(***************************************************************************)
(* str methods used by parse_config, on sequences of characters.           *)
(***************************************************************************)
UpperChar(c) ==
    CASE c = "a" -> "A" [] c = "b" -> "B" [] c = "f" -> "F" [] c = "h" -> "H"
      [] c = "p" -> "P" [] c = "s" -> "S" [] c = "t" -> "T"
      [] c = "e" -> "E" [] c = "n" -> "N" [] c = "l" -> "L" [] c = "d" -> "D"
      [] c = "o" -> "O" [] c = "r" -> "R"
      [] OTHER -> c

LowerChar(c) ==
    CASE c = "A" -> "a" [] c = "B" -> "b" [] c = "F" -> "f" [] c = "H" -> "h"
      [] c = "P" -> "p" [] c = "S" -> "s" [] c = "T" -> "t"
      [] c = "E" -> "e" [] c = "N" -> "n" [] c = "L" -> "l" [] c = "D" -> "d"
      [] c = "O" -> "o" [] c = "R" -> "r"
      [] OTHER -> c

Upper(s) == [i \in 1..Len(s) |-> UpperChar(s[i])]
Lower(s) == [i \in 1..Len(s) |-> LowerChar(s[i])]

EndsWith(s, suffix) ==
    /\ Len(s) >= Len(suffix)
    /\ SubSeq(s, Len(s) - Len(suffix) + 1, Len(s)) = suffix

\* s.split(".")[0]: the part of s before its first "."
SplitFirst(s) ==
    LET dots == {i \in 1..Len(s) : s[i] = "."}
    IN  IF dots = {} THEN s
        ELSE SubSeq(s, 1, (CHOOSE i \in dots : \A j \in dots : i <= j) - 1)

RECURSIVE Digits(_)
Digits(n) ==
    LET d == <<"0", "1", "2", "3", "4", "5", "6", "7", "8", "9">>
    IN  IF n < 10 THEN <<d[n + 1]>> ELSE Digits(n \div 10) \o <<d[(n % 10) + 1]>>

\* str(value) as an f-string formats it
Str(value) ==
    CASE value.t = "bool" -> IF value.b THEN <<"T", "r", "u", "e">>
                             ELSE <<"F", "a", "l", "s", "e">>
      [] value.t = "int" -> Digits(value.n)
      [] value.t = "str" -> value.s

DotEnabled == <<".", "e", "n", "a", "b", "l", "e", "d">>
DotPort == <<".", "p", "o", "r", "t">>
NA == PyStr(<<"N", "/", "A">>)

(***************************************************************************)
(* A configuration object: the (key, value) pairs in file order, keys      *)
(* distinct.                                                               *)
(***************************************************************************)
HasKey(cfg, key) == \E i \in 1..Len(cfg) : cfg[i].key = key

\* config.get(key, default)
Get(cfg, key, default) ==
    IF HasKey(cfg, key)
    THEN cfg[CHOOSE i \in 1..Len(cfg) : cfg[i].key = key].value
    ELSE default

\* bool(value): Python's truth value
Truthy(value) ==
    CASE value.t = "bool" -> value.b
      [] value.t = "int" -> value.n # 0
      [] value.t = "str" -> value.s # <<>>

\* line 24 without the isinstance test
IsActiveNoBoolCheck(key, value) ==
    EndsWith(key, DotEnabled) /\ Truthy(value)

\* line 24: isinstance(value, bool) and key.endswith(".enabled") and value
IsActive(key, value) ==
    /\ value.t = "bool"
    /\ EndsWith(key, DotEnabled)
    /\ Truthy(value)

\* lines 25-28: the line of one active key
ServiceLine(cfg, key) ==
    LET service_name == Upper(SplitFirst(key))
        port_key == Lower(service_name) \o DotPort
        port == Get(cfg, port_key, NA)
    IN  service_name \o <<" on Port ">> \o Str(port)

\* lines 22-28: the loop over config.items()
RECURSIVE ActiveFrom(_, _)
ActiveFrom(cfg, i) ==
    IF i > Len(cfg) THEN <<>>
    ELSE (IF IsActive(cfg[i].key, cfg[i].value)
          THEN <<ServiceLine(cfg, cfg[i].key)>> ELSE <<>>)
         \o ActiveFrom(cfg, i + 1)

ActiveServices(cfg) == ActiveFrom(cfg, 1)

NoActiveLine == <<"No active services found">>
NotFoundLine == <<"Error: Config file not found">>
InvalidJsonLine(msg) == <<"Error: Invalid JSON (", msg, ")">>
ErrorLine(msg) == <<"Error: ", msg>>

\* line 30: active_services or ["No active services found"]
OrNoActive(active_services) ==
    IF active_services # <<>> THEN active_services ELSE <<NoActiveLine>>

(***************************************************************************)
(* The file at CONFIG_PATH.                                                *)
(***************************************************************************)
Absent == [kind |-> "absent", cfg |-> <<>>]
InvalidJson == [kind |-> "invalid", cfg |-> <<>>]
NotAnObject == [kind |-> "nonobject", cfg |-> <<>>]
Unreadable == [kind |-> "unreadable", cfg |-> <<>>]
Object(cfg) == [kind |-> "object", cfg |-> cfg]

Key(name, suffix) == name \o suffix

ConfigKeys ==
    { Key(<<"f", "t", "p">>, DotEnabled), Key(<<"f", "t", "p">>, DotPort),
      Key(<<"F", "T", "P">>, DotEnabled), Key(<<"F", "T", "P">>, DotPort),
      Key(<<"a", ".", "b">>, DotEnabled), Key(<<"a">>, DotPort),
      Key(<<"s", "s", "h">>, DotEnabled) }

ConfigValues == {PyBool(TRUE), PyBool(FALSE), PyInt(21)}

ConfigPairs == [key : ConfigKeys, value : ConfigValues]

ConfigsOfLen(n) ==
    {c \in [1..n -> ConfigPairs] :
        \A i, j \in 1..n : i # j => c[i].key # c[j].key}

Configs == UNION {ConfigsOfLen(n) : n \in 0..MaxKeys}

Files == {Absent, InvalidJson, NotAnObject, Unreadable}
            \cup {Object(c) : c \in Configs}

\* the files the environment puts at the path while the program runs
FtpCfg == <<[key |-> Key(<<"f", "t", "p">>, DotEnabled), value |-> PyBool(TRUE)],
            [key |-> Key(<<"f", "t", "p">>, DotPort), value |-> PyInt(21)]>>
SshCfg == <<[key |-> Key(<<"s", "s", "h">>, DotEnabled), value |-> PyBool(TRUE)]>>

LiveFiles == {Absent, InvalidJson, Object(FtpCfg), Object(SshCfg)}

\* the message of the exception open()/json.load()/config.items() raises
ErrorMessage(file) ==
    CASE file.kind = "absent" -> "[Errno 2] No such file or directory"
      [] file.kind = "unreadable" -> "[Errno 13] Permission denied"
      [] file.kind = "nonobject" -> "'list' object has no attribute 'items'"
      [] file.kind = "invalid" -> "Expecting value: line 1 column 1 (char 0)"

\* lines 18-34: what parse_config returns once the existence check passed
ParseBody(file) ==
    CASE file.kind = "object" -> OrNoActive(ActiveServices(file.cfg))
      [] file.kind = "invalid" -> <<InvalidJsonLine(ErrorMessage(file))>>
      [] OTHER -> <<ErrorLine(ErrorMessage(file))>>

(***************************************************************************)
(* parse_config, as main calls it at line 109.                             *)
(***************************************************************************)
\* line 15-16: os.path.exists(config_path)
ParseExists ==
    /\ pc = "exists"
    /\ seen' = <<fs.kind>>
    /\ config' = None
    /\ IF fs.kind = "absent"
       THEN /\ services' = <<NotFoundLine>>
            /\ pc' = "compare"
       ELSE /\ pc' = "open"
            /\ UNCHANGED services
    /\ UNCHANGED <<fs, result, honeypot_status, last_status, last_services,
                   epd_width, descent, layout, canvas, display, renderCall,
                   prevCall, completed, rendersThisTick, firstTick,
                   moduleExits>>

\* lines 18-34: open, json.load, the loop over the items, the handlers
ParseOpen ==
    /\ pc = "open"
    /\ seen' = Append(seen, fs.kind)
    /\ config' = IF fs.kind = "object" THEN Some(fs.cfg) ELSE None
    /\ services' = ParseBody(fs)
    /\ pc' = "compare"
    /\ UNCHANGED <<fs, result, honeypot_status, last_status, last_services,
                   epd_width, descent, layout, canvas, display, renderCall,
                   prevCall, completed, rendersThisTick, firstTick,
                   moduleExits>>

\* the environment rewrites, creates or removes the file before either access
FsChange ==
    /\ pc \in {"exists", "open"}
    /\ fs' \in LiveFiles \ {fs}
    /\ UNCHANGED <<pc, seen, config, result, honeypot_status, services,
                   last_status, last_services, epd_width, descent, layout,
                   canvas, display, renderCall, prevCall, completed,
                   rendersThisTick, firstTick, moduleExits>>

(***************************************************************************)
(* check_honeypot_status.                                                  *)
(***************************************************************************)
IsSpace(tok) == tok \in {" ", "\n"}

\* str.strip() on the output's tokens
RECURSIVE LStrip(_)
LStrip(s) == IF s # <<>> /\ IsSpace(Head(s)) THEN LStrip(Tail(s)) ELSE s
RECURSIVE RStrip(_)
RStrip(s) ==
    IF s # <<>> /\ IsSpace(s[Len(s)]) THEN RStrip(SubSeq(s, 1, Len(s) - 1))
    ELSE s
Strip(s) == LStrip(RStrip(s))

Completed(code, out) == [kind |-> "completed", returncode |-> code, stdout |-> out]
Raised(msg) == [kind |-> "raised", returncode |-> 0, stdout |-> <<msg>>]

ActiveStatus == <<"Active">>
InactiveStatus == <<"Inactive">>
UnknownStatus(text) == <<"Unknown status (">> \o text \o <<")">>
ErrorStatus(msg) == <<"Error checking status (", msg, ")">>

\* lines 45-52, with the test of the exit code left out
StatusOfNoExitCode(r) ==
    IF r.kind = "raised" THEN ErrorStatus(r.stdout[1])
    ELSE IF Strip(r.stdout) = <<"active">> THEN ActiveStatus
    ELSE IF Strip(r.stdout) = <<"inactive">> THEN InactiveStatus
    ELSE UnknownStatus(Strip(r.stdout))

\* lines 45-52
StatusOf(r) ==
    IF r.kind = "raised" THEN ErrorStatus(r.stdout[1])
    ELSE IF r.returncode = 0 THEN ActiveStatus
    ELSE IF Strip(r.stdout) = <<"inactive">> THEN InactiveStatus
    ELSE UnknownStatus(Strip(r.stdout))

OutputTokens == {" ", "\n", "active", "inactive", "failed"}
Outputs == UNION {[1..n -> OutputTokens] : n \in 0..MaxOutput}
ReturnCodes == {0, 3, 4}
RunFailures == {"[Errno 2] No such file or directory: 'systemctl'",
                "'utf-8' codec can't decode byte 0xff"}
Results == {Completed(c, o) : c \in ReturnCodes, o \in Outputs}
              \cup {Raised(m) : m \in RunFailures}

\* what systemctl answers while the program runs
LiveResults ==
    { Completed(0, <<"active", "\n">>), Completed(3, <<"inactive", "\n">>),
      Completed(3, <<"failed", "\n">>),
      Raised("[Errno 2] No such file or directory: 'systemctl'") }

NoResult == Completed(0, <<>>)

\* line 106: honeypot_status = check_honeypot_status()
CheckStatusOver(pool) ==
    /\ pc = "status"
    /\ result' \in pool
    /\ honeypot_status' = StatusOf(result')
    /\ rendersThisTick' = 0
    /\ pc' = "exists"
    /\ UNCHANGED <<fs, seen, config, services, last_status, last_services,
                   epd_width, descent, layout, canvas, display, renderCall,
                   prevCall, completed, firstTick, moduleExits>>

CheckStatus == CheckStatusOver(LiveResults)
ProbeStatus == CheckStatusOver(Results)

(***************************************************************************)
(* display_on_epaper.                                                      *)
(***************************************************************************)
TitleSize == 20
StatusSize == 14
HeadingSize == 16
ServicesSize == 14
LineSpacing == 5
ExtraSpacing == 10
MaxLines == 8
MarginX == 10

TitleText == <<"Not a Honeypot">>
HeadingText == <<"Listening for:">>
StatusPrefix == <<"Status: ">>
LetterA == <<"A">>

\* tokens holding a glyph that reaches below the baseline
Descending ==
    { "g", "j", "p", "q", "y", "/", "(", ")", "Not a Honeypot",
      "Listening for:", "Error: Config file not found",
      "Error: Invalid JSON (", "Unknown status (", "Error checking status (",
      "[Errno 2] No such file or directory", "[Errno 13] Permission denied",
      "'list' object has no attribute 'items'",
      "Expecting value: line 1 column 1 (char 0)",
      "[Errno 2] No such file or directory: 'systemctl'",
      "'utf-8' codec can't decode byte 0xff" }

HasDescender(text) == \E i \in 1..Len(text) : text[i] \in Descending

\* draw.textbbox((0, 0), text, font=font)[3]: the bottom of the text's box, the
\* font's ascent plus the depth d of its deepest glyph
TextBottom(size, text, d) == size + (IF HasDescender(text) THEN d ELSE 0)

\* lines 70-77
Layout(status, svcs, width, d) ==
    LET title_height == TextBottom(TitleSize, TitleText, d)
        status_height == TextBottom(StatusSize, StatusPrefix \o status, d)
        heading_height == TextBottom(HeadingSize, HeadingText, d)
        services_height ==
            Len(svcs) * (TextBottom(ServicesSize, LetterA, d) + LineSpacing)
        total_text_height ==
            title_height + status_height + heading_height + services_height
                + (LineSpacing * 3) + ExtraSpacing
    IN  [ title_height |-> title_height,
          status_height |-> status_height,
          heading_height |-> heading_height,
          total_text_height |-> total_text_height,
          start_y |-> Max(0, (width - total_text_height) \div 2) ]

NoLayout ==
    [ title_height |-> 0, status_height |-> 0, heading_height |-> 0,
      total_text_height |-> 0, start_y |-> 0 ]

\* line 90 without the slice
AllLines(svcs) == svcs

\* line 90: services[:8]
FirstLines(svcs) == SubSeq(svcs, 1, Min(MaxLines, Len(svcs)))

Item(y, text) == [x |-> MarginX, y |-> y, text |-> text]

\* lines 90-92: the lines drawn from y on, and y after the last of them
RECURSIVE DrawLines(_, _, _)
DrawLines(lines, y, d) ==
    IF lines = <<>> THEN [items |-> <<>>, y |-> y]
    ELSE LET rest == DrawLines(Tail(lines),
                               y + TextBottom(ServicesSize, Head(lines), d)
                                 + LineSpacing, d)
         IN  [items |-> <<Item(y, Head(lines))>> \o rest.items, y |-> rest.y]

\* lines 80-92: the text drawn on the image, and y after the last line
Draw(status, svcs, lay, d) ==
    LET y1 == lay.start_y
        y2 == y1 + lay.title_height + LineSpacing
        y3 == y2 + lay.status_height + LineSpacing + ExtraSpacing
        y4 == y3 + lay.heading_height + LineSpacing
        body == DrawLines(FirstLines(svcs), y4, d)
    IN  [ items |-> <<Item(y1, TitleText), Item(y2, status),
                      Item(y3, HeadingText)>> \o body.items,
          y |-> body.y ]

BlankCanvas == [items |-> <<>>, y |-> 0]

RenderPcs == {"r_init", "r_clear", "r_layout", "r_draw", "r_display", "r_sleep"}

\* line 56: epd.init()
RenderInit ==
    /\ pc = "r_init"
    /\ pc' = "r_clear"
    /\ UNCHANGED <<fs, seen, config, result, honeypot_status, services,
                   last_status, last_services, epd_width, descent, layout,
                   canvas, display, renderCall, prevCall, completed,
                   rendersThisTick, firstTick, moduleExits>>

\* line 57: epd.Clear()
RenderClear ==
    /\ pc = "r_clear"
    /\ display' = Some(<<>>)
    /\ pc' = "r_layout"
    /\ UNCHANGED <<fs, seen, config, result, honeypot_status, services,
                   last_status, last_services, epd_width, descent, layout,
                   canvas, renderCall, prevCall, completed, rendersThisTick,
                   firstTick, moduleExits>>

\* lines 60-77: a white image, the fonts, the heights, start_y
RenderLayout ==
    /\ pc = "r_layout"
    /\ canvas' = BlankCanvas
    /\ layout' = Layout(honeypot_status, services, epd_width, descent)
    /\ pc' = "r_draw"
    /\ UNCHANGED <<fs, seen, config, result, honeypot_status, services,
                   last_status, last_services, epd_width, descent, display,
                   renderCall, prevCall, completed, rendersThisTick,
                   firstTick, moduleExits>>

\* lines 80-92
RenderDraw ==
    /\ pc = "r_draw"
    /\ canvas' = Draw(honeypot_status, services, layout, descent)
    /\ pc' = "r_display"
    /\ UNCHANGED <<fs, seen, config, result, honeypot_status, services,
                   last_status, last_services, epd_width, descent, layout,
                   display, renderCall, prevCall, completed, rendersThisTick,
                   firstTick, moduleExits>>

\* line 94: epd.display(epd.getbuffer(image))
RenderDisplay ==
    /\ pc = "r_display"
    /\ display' = Some(canvas.items)
    /\ pc' = "r_sleep"
    /\ UNCHANGED <<fs, seen, config, result, honeypot_status, services,
                   last_status, last_services, epd_width, descent, layout,
                   canvas, renderCall, prevCall, completed, rendersThisTick,
                   firstTick, moduleExits>>

\* line 95: epd.sleep(), and the return to main
RenderSleep ==
    /\ pc = "r_sleep"
    /\ completed' = renderCall
    /\ pc' = "set_status"
    /\ UNCHANGED <<fs, seen, config, result, honeypot_status, services,
                   last_status, last_services, epd_width, descent, layout,
                   canvas, display, renderCall, prevCall, rendersThisTick,
                   firstTick, moduleExits>>

\* a driver call, a font load or a draw raises: nothing in display_on_epaper
\* catches it, main's "except Exception" (line 125) does
RenderRaise ==
    /\ pc \in RenderPcs
    /\ pc' = "handler_exc"
    /\ UNCHANGED <<fs, seen, config, result, honeypot_status, services,
                   last_status, last_services, epd_width, descent, layout,
                   canvas, display, renderCall, prevCall, completed,
                   rendersThisTick, firstTick, moduleExits>>

(***************************************************************************)
(* main.                                                                   *)
(***************************************************************************)
LoopPcs == {"status", "exists", "open", "compare", "set_status",
            "set_services", "sleep"} \cup RenderPcs

\* line 112 with "or" replaced by "and"
DiffersBoth(status, svcs, lstatus, lsvcs) ==
    Some(status) # lstatus /\ Some(svcs) # lsvcs

\* line 112 with the comparison dropped: refresh on every tick
DiffersAlways(status, svcs, lstatus, lsvcs) == TRUE

\* line 112: honeypot_status != last_status or services != last_services
Differs(status, svcs, lstatus, lsvcs) ==
    Some(status) # lstatus \/ Some(svcs) # lsvcs

Pair(status, svcs) == [status |-> status, services |-> svcs]

\* lines 112-114, 117-118: the comparison, and the call of display_on_epaper
Compare ==
    /\ pc = "compare"
    /\ IF Differs(honeypot_status, services, last_status, last_services)
       THEN /\ pc' = "r_init"
            /\ prevCall' = renderCall
            /\ renderCall' = Some(Pair(honeypot_status, services))
            /\ rendersThisTick' = rendersThisTick + 1
       ELSE /\ pc' = "sleep"
            /\ UNCHANGED <<prevCall, renderCall, rendersThisTick>>
    /\ UNCHANGED <<fs, seen, config, result, honeypot_status, services,
                   last_status, last_services, epd_width, descent, layout,
                   canvas, display, completed, firstTick, moduleExits>>

\* line 115: last_status = honeypot_status
SetLastStatus ==
    /\ pc = "set_status"
    /\ last_status' = Some(honeypot_status)
    /\ pc' = "set_services"
    /\ UNCHANGED <<fs, seen, config, result, honeypot_status, services,
                   last_services, epd_width, descent, layout, canvas, display,
                   renderCall, prevCall, completed, rendersThisTick,
                   firstTick, moduleExits>>

\* line 116 left out: the stored services are never updated
SetLastServicesStale ==
    /\ pc = "set_services"
    /\ pc' = "sleep"
    /\ UNCHANGED <<fs, seen, config, result, honeypot_status, services,
                   last_status, last_services, epd_width, descent, layout,
                   canvas, display, renderCall, prevCall, completed,
                   rendersThisTick, firstTick, moduleExits>>

\* line 116: last_services = services
SetLastServices ==
    /\ pc = "set_services"
    /\ last_services' = Some(services)
    /\ pc' = "sleep"
    /\ UNCHANGED <<fs, seen, config, result, honeypot_status, services,
                   last_status, epd_width, descent, layout, canvas, display,
                   renderCall, prevCall, completed, rendersThisTick,
                   firstTick, moduleExits>>

\* line 121: time.sleep(REFRESH_INTERVAL), then the next iteration
Sleep ==
    /\ pc = "sleep"
    /\ firstTick' = FALSE
    /\ pc' = "status"
    /\ UNCHANGED <<fs, seen, config, result, honeypot_status, services,
                   last_status, last_services, epd_width, descent, layout,
                   canvas, display, renderCall, prevCall, completed,
                   rendersThisTick, moduleExits>>

\* Ctrl-C while the try body (lines 104-121) runs: KeyboardInterrupt passes
\* the "except Exception" clauses of the callees and reaches line 122
Interrupt ==
    /\ pc \in LoopPcs
    /\ pc' = "handler_ki"
    /\ UNCHANGED <<fs, seen, config, result, honeypot_status, services,
                   last_status, last_services, epd_width, descent, layout,
                   canvas, display, renderCall, prevCall, completed,
                   rendersThisTick, firstTick, moduleExits>>

\* lines 122-124
HandlerKI ==
    /\ pc = "handler_ki"
    /\ moduleExits' = moduleExits + 1
    /\ pc' = "done"
    /\ UNCHANGED <<fs, seen, config, result, honeypot_status, services,
                   last_status, last_services, epd_width, descent, layout,
                   canvas, display, renderCall, prevCall, completed,
                   rendersThisTick, firstTick>>

\* lines 125-126 without line 127
HandlerExcNoRelease ==
    /\ pc = "handler_exc"
    /\ pc' = "done"
    /\ UNCHANGED <<fs, seen, config, result, honeypot_status, services,
                   last_status, last_services, epd_width, descent, layout,
                   canvas, display, renderCall, prevCall, completed,
                   rendersThisTick, firstTick, moduleExits>>

\* lines 125-127
HandlerExc ==
    /\ pc = "handler_exc"
    /\ moduleExits' = moduleExits + 1
    /\ pc' = "done"
    /\ UNCHANGED <<fs, seen, config, result, honeypot_status, services,
                   last_status, last_services, epd_width, descent, layout,
                   canvas, display, renderCall, prevCall, completed,
                   rendersThisTick, firstTick>>

(***************************************************************************)
(* Specifications.                                                         *)
(***************************************************************************)
PanelWidths == {176, 264}
Descents == 0..MaxDescent

\* the state main is in when it enters the loop (lines 98-103), but for pc
\* and the environment
Fresh ==
    /\ seen = <<>>
    /\ config = None
    /\ result = NoResult
    /\ honeypot_status = <<>>
    /\ services = <<>>
    /\ last_status = None
    /\ last_services = None
    /\ layout = NoLayout
    /\ canvas = BlankCanvas
    /\ display = None
    /\ renderCall = None
    /\ prevCall = None
    /\ completed = None
    /\ rendersThisTick = 0
    /\ firstTick = TRUE
    /\ moduleExits = 0

\* the whole program
Init ==
    /\ pc = "status"
    /\ fs \in LiveFiles
    /\ epd_width \in PanelWidths
    /\ descent \in Descents
    /\ Fresh

Next ==
    \/ CheckStatus
    \/ ParseExists
    \/ ParseOpen
    \/ FsChange
    \/ Compare
    \/ RenderInit
    \/ RenderClear
    \/ RenderLayout
    \/ RenderDraw
    \/ RenderDisplay
    \/ RenderSleep
    \/ RenderRaise
    \/ SetLastStatus
    \/ SetLastServices
    \/ Sleep
    \/ Interrupt
    \/ HandlerKI
    \/ HandlerExc

Spec == Init /\ [][Next]_vars

\* parse_config on every file
InitConfig ==
    /\ pc = "exists"
    /\ fs \in Files
    /\ epd_width = 176
    /\ descent = 0
    /\ Fresh

NextConfig == ParseExists \/ ParseOpen \/ FsChange

SpecConfig == InitConfig /\ [][NextConfig]_vars

\* check_honeypot_status on every outcome of the query
InitProbe ==
    /\ pc = "status"
    /\ fs = Absent
    /\ epd_width = 176
    /\ descent = 0
    /\ Fresh

NextProbe == ProbeStatus

SpecProbe == InitProbe /\ [][NextProbe]_vars

\* display_on_epaper on every status and list of services
PlainLine == <<"F", "T", "P", " on Port ", "2", "1">>
RenderLines == {PlainLine, NotFoundLine}
RenderServices == UNION {[1..n -> RenderLines] : n \in 0..MaxServices}
RenderStatuses == {ActiveStatus, UnknownStatus(<<"failed">>)}

InitRender ==
    /\ pc = "r_init"
    /\ fs = Absent
    /\ epd_width \in PanelWidths
    /\ descent \in Descents
    /\ seen = <<>>
    /\ config = None
    /\ result = NoResult
    /\ honeypot_status \in RenderStatuses
    /\ services \in RenderServices
    /\ last_status = None
    /\ last_services = None
    /\ layout = NoLayout
    /\ canvas = BlankCanvas
    /\ display = None
    /\ renderCall = Some(Pair(honeypot_status, services))
    /\ prevCall = None
    /\ completed = None
    /\ rendersThisTick = 1
    /\ firstTick = TRUE
    /\ moduleExits = 0

NextRender ==
    \/ RenderInit
    \/ RenderClear
    \/ RenderLayout
    \/ RenderDraw
    \/ RenderDisplay
    \/ RenderSleep
    \/ RenderRaise

SpecRender == InitRender /\ [][NextRender]_vars

(***************************************************************************)
(* Properties.                                                             *)
(***************************************************************************)
Polled == Pair(honeypot_status, services)

\* C1: no render call has the same (status, services) as the render call
\* right before it, so ticks polling the same pair render it at most once.
NoRedundantRedraw == renderCall # None => renderCall # prevCall

\* C1 witness: after two renders, a tick has polled the stored pair again and
\* skipped the render.
SkippedAfterRedraw ==
    /\ pc = "sleep"
    /\ prevCall # None
    /\ rendersThisTick = 0
    /\ renderCall = Some(Polled)

\* C2: a tick whose polled pair differs from the stored pair calls the
\* renderer once, with the polled pair, and the stored pair is the polled
\* pair when the tick ends; a tick whose pair is the stored one renders
\* nothing; the first tick renders.
RenderOnChange ==
    /\ [][(pc = "compare" /\ pc' # "handler_ki") =>
            IF <<Some(honeypot_status), Some(services)>>
                    # <<last_status, last_services>>
            THEN /\ pc' = "r_init"
                 /\ renderCall' = Some(Polled)
                 /\ rendersThisTick' = 1
            ELSE /\ pc' = "sleep"
                 /\ rendersThisTick' = 0
                 /\ UNCHANGED <<renderCall, display>>]_vars
    /\ [](pc = "sleep" =>
            /\ last_status = Some(honeypot_status)
            /\ last_services = Some(services)
            /\ rendersThisTick <= 1
            /\ rendersThisTick = 1 => completed = Some(Polled)
            /\ firstTick => rendersThisTick = 1)

\* C2 witness: a tick after the first has rendered a changed pair and stored
\* it.
RenderedAChange ==
    /\ pc = "sleep"
    /\ ~firstTick
    /\ rendersThisTick = 1
    /\ prevCall # None
    /\ last_status = Some(honeypot_status)
    /\ last_services = Some(services)

EnabledTrue(cfg) ==
    {i \in 1..Len(cfg) :
        EndsWith(cfg[i].key, DotEnabled) /\ cfg[i].value = PyBool(TRUE)}

\* C3: for a parsed object with N keys ending in ".enabled" whose value is
\* the boolean true, parse_config returns N lines when N >= 1 and the one
\* line "No active services found" when N = 0; never an empty list.
LinePerEnabledKey ==
    (pc = "compare" /\ config # None) =>
        LET N == Cardinality(EnabledTrue(config.val))
        IN  /\ N >= 1 => Len(services) = N
            /\ N = 0 => services = <<NoActiveLine>>
            /\ services # <<>>

\* C3 witness: two enabled keys of the same service name gave two equal
\* lines, beside a key whose value is truthy but no boolean.
DuplicateServiceLines ==
    /\ pc = "compare"
    /\ config # None
    /\ Len(config.val) = 3
    /\ \E i \in 1..3 : /\ EndsWith(config.val[i].key, DotEnabled)
                       /\ config.val[i].value = PyInt(21)
    /\ Len(services) = 2
    /\ services[1] = services[2]

\* the line C4 expects of key <service>.enabled
SiblingLine(cfg, key) ==
    LET service == SubSeq(key, 1, Len(key) - Len(DotEnabled))
    IN  Upper(service) \o <<" on Port ">> \o Str(Get(cfg, service \o DotPort, NA))

RECURSIVE SiblingLinesFrom(_, _)
SiblingLinesFrom(cfg, i) ==
    IF i > Len(cfg) THEN <<>>
    ELSE (IF i \in EnabledTrue(cfg) THEN <<SiblingLine(cfg, cfg[i].key)>>
          ELSE <<>>) \o SiblingLinesFrom(cfg, i + 1)

\* C4: every key <service>.enabled with the value true gives the line
\* "<SERVICE> on Port <p>", p the value of the object's key <service>.port
\* or N/A without one, the lines in key order, whatever the key's spelling.
SiblingPortLines ==
    (pc = "compare" /\ config # None /\ EnabledTrue(config.val) # {}) =>
        services = SiblingLinesFrom(config.val, 1)

\* C5: parse_config returns ["Error: Config file not found"] whenever the
\* path does not exist when it is accessed, one line starting
\* "Error: Invalid JSON (" on invalid JSON, and one line "Error: <message>"
\* on any other failure.
ErrorLinesExact ==
    (pc = "compare" /\ seen # <<>>) =>
        LET found == seen[Len(seen)]
        IN  /\ services # <<>>
            /\ found = "absent" => services = <<NotFoundLine>>
            /\ found = "invalid" =>
                  Len(services) = 1 /\ Head(services[1]) = "Error: Invalid JSON ("
            /\ found \in {"nonobject", "unreadable"} =>
                  Len(services) = 1 /\ Head(services[1]) = "Error: "

\* the output, leading and trailing whitespace aside, is the word "inactive"
TrimsToInactive(out) ==
    \E i \in 1..Len(out) :
        /\ out[i] = "inactive"
        /\ \A j \in 1..Len(out) : j # i => IsSpace(out[j])

\* C6: check_honeypot_status returns "Active" on exit code 0 whatever the
\* output, "Inactive" on another exit code with trimmed output "inactive",
\* a string starting "Unknown status (" on every other outcome, and
\* "Error checking status (<message>)" when the query itself fails.
StatusTotal ==
    pc = "exists" =>
        IF result.kind = "raised"
        THEN honeypot_status
                = <<"Error checking status (", result.stdout[1], ")">>
        ELSE IF result.returncode = 0 THEN honeypot_status = <<"Active">>
        ELSE IF TrimsToInactive(result.stdout)
             THEN honeypot_status = <<"Inactive">>
        ELSE Head(honeypot_status) = "Unknown status ("

\* C6 witness: exit code 0 with the output "inactive" was reported as Active.
ActiveWhateverTheText ==
    /\ pc = "exists"
    /\ result = Completed(0, <<"inactive", "\n">>)
    /\ honeypot_status = <<"Active">>

\* C7: a KeyboardInterrupt or an exception escaping a tick leads to one call
\* of module_exit, after which the program takes no further step; the
\* program never stops without that call.
ReleaseOnce ==
    /\ [](/\ moduleExits <= 1
          /\ pc = "done" <=> moduleExits = 1)
    /\ [][pc # "done"]_vars

\* C7 witness: the program stopped, released, after a render that did not
\* return.
StoppedAfterRelease ==
    /\ pc = "done"
    /\ moduleExits = 1
    /\ renderCall # completed

DrawnLines == SubSeq(canvas.items, 4, Len(canvas.items))

\* C8: the service lines drawn are the first min(8, len(services)) entries
\* of services, in order, so never more than 8.
AtMostEightLines ==
    pc \in {"r_display", "r_sleep", "set_status"} =>
        /\ Len(DrawnLines) <= 8
        /\ Len(DrawnLines) = (IF Len(services) < 8 THEN Len(services) ELSE 8)
        /\ \A i \in 1..Len(DrawnLines) : DrawnLines[i].text = services[i]
        /\ pc # "r_display" => display = Some(canvas.items)

\* C8 witness: a render of more than 8 services returned with 8 of them on
\* the panel.
NinthLineDropped ==
    /\ pc = "set_status"
    /\ Len(services) > 8
    /\ Len(display.val) = 3 + 8

\* C9: while the loop waits between ticks, the stored pair is the pair of
\* the last render that returned and the panel shows what that pair renders
\* to; the stored pair changes only right after a render returned, to that
\* render's arguments.
SnapshotConsistent ==
    /\ [](pc = "sleep" =>
            /\ completed # None
            /\ last_status # None
            /\ last_services # None
            /\ completed = Some(Pair(last_status.val, last_services.val))
            /\ display = Some(Draw(last_status.val, last_services.val,
                                   Layout(last_status.val, last_services.val,
                                          epd_width, descent),
                                   descent).items))
    /\ [][/\ last_status' # last_status =>
                /\ pc = "set_status"
                /\ completed = renderCall
                /\ last_status' = Some(completed.val.status)
          /\ last_services' # last_services =>
                /\ pc = "set_services"
                /\ completed = renderCall
                /\ last_services' = Some(completed.val.services)
          /\ pc' = "handler_exc" => UNCHANGED <<last_status, last_services>>
         ]_vars

\* C9 witness: the loop waits after a tick that skipped the render, the
\* panel still showing the stored pair.
WaitingAfterSkip ==
    /\ pc = "sleep"
    /\ ~firstTick
    /\ rendersThisTick = 0
    /\ display # None
    /\ completed = Some(Pair(last_status.val, last_services.val))

\* C10: the total height used for the start position is the height of the
\* block drawn, and drawing starts at max(0, (width - total) / 2) >= 0.
CentredBlock ==
    pc = "r_display" =>
        /\ layout.total_text_height = canvas.y - layout.start_y
        /\ layout.start_y >= 0
        /\ layout.start_y
              = (IF epd_width - layout.total_text_height >= 0
                 THEN (epd_width - layout.total_text_height) \div 2 ELSE 0)
====
